---- MODULE Spec2Model ----
(***************************************************************************)
(* Model of the task manager MCP server (nimec77/mcp_todo_task):           *)
(*   models.rs        Task, TaskCollection, TaskStatus, Priority           *)
(*   storage.rs       TaskStorage::load_tasks                              *)
(*   task_service.rs  TaskService::filter_tasks, find_task_by_id,          *)
(*                    TaskStatistics::from_tasks, format_stats             *)
(*   mcp_handler.rs   TaskMcpHandler::call_tool and its three handlers     *)
(*                                                                         *)
(* A request is served in steps separated by the one await point that      *)
(* matters, the storage load: call_tool dispatches (and, for get_task,     *)
(* validates the argument), the storage is loaded, the handler finishes.   *)
(* Text payloads are modelled as sequences of lines, a line being a        *)
(* sequence of string tokens.                                              *)
(*                                                                         *)
(* Spec serves one request at a time over every document and argument bag  *)
(* within the bounds; SpecConc interleaves two requests; SpecEnv also lets *)
(* another process replace the document between their steps.               *)
(***************************************************************************)
EXTENDS Integers, Sequences, FiniteSets, TLC

VARIABLES
    doc,            \* the backing JSON document at TaskStorage.file_path
    pc,             \* position of the request being served
    request,        \* CallToolRequestParam: name and arguments
    loads,          \* number of storage loads the request has performed
    loaded,         \* Option<Result<TaskCollection>>: result of load_tasks
    task_id,        \* handle_get_task: the extracted id (Option<&str>)
    filters,        \* handle_list_tasks: HashMap<String, String>
    filtered_tasks, \* handle_list_tasks: result of filter_tasks
    stats,          \* handle_task_stats: TaskStatistics
    response,       \* Option<Result<CallToolResult, McpError>>
    method,         \* the ServerHandler method being served
    saw,            \* history: the document content the request loaded
    parked,         \* the frame of the other request in flight
    first           \* history: a request and the outcome the client got for it

vars == <<doc, pc, request, loads, loaded, task_id, filters, filtered_tasks,
          stats, response, method, saw, parked, first>>

----------------------------------------------------------------------------
(* Bounds *)

MaxTasks == 3       \* longest task sequence of a document
MaxArgs == 2        \* most keys in an argument bag

----------------------------------------------------------------------------
(* Option<T> is a sequence of length 0 (None) or 1 (Some) *)

None == <<>>
Some(v) == <<v>>
IsSome(o) == Len(o) = 1
Unwrap(o) == o[1]

(* The empty HashMap / serde_json::Map *)
EmptyMap == [k \in {} |-> ""]

(* All iteration orders of a key set: HashMap iteration order is unspecified *)
Orders(S) ==
    {o \in [1..Cardinality(S) -> S] : \A i, j \in DOMAIN o : i # j => o[i] # o[j]}

RECURSIVE SumOver(_, _)
SumOver(m, keys) ==
    IF keys = {} THEN 0
    ELSE LET k == CHOOSE x \in keys : TRUE IN m[k] + SumOver(m, keys \ {k})

(* Sum of the values of a map *)
SumValues(m) == SumOver(m, DOMAIN m)

----------------------------------------------------------------------------
(* models.rs *)

Pending == "TaskStatus::Pending"
InProgress == "TaskStatus::InProgress"
Completed == "TaskStatus::Completed"
Cancelled == "TaskStatus::Cancelled"
TaskStatus == {Pending, InProgress, Completed, Cancelled}

Low == "Priority::Low"
Medium == "Priority::Medium"
High == "Priority::High"
Critical == "Priority::Critical"
Priority == {Low, Medium, High, Critical}

(* #[derive(Debug)] on the two enums: the variant name *)
DebugFmt(e) ==
    CASE e = Pending -> "Pending"
      [] e = InProgress -> "InProgress"
      [] e = Completed -> "Completed"
      [] e = Cancelled -> "Cancelled"
      [] e = Low -> "Low"
      [] e = Medium -> "Medium"
      [] e = High -> "High"
      [] e = Critical -> "Critical"

(* #[derive(Serialize)] with rename_all = "snake_case" / "lowercase" *)
SerdeFmt(e) ==
    CASE e = Pending -> "pending"
      [] e = InProgress -> "in_progress"
      [] e = Completed -> "completed"
      [] e = Cancelled -> "cancelled"
      [] e = Low -> "low"
      [] e = Medium -> "medium"
      [] e = High -> "high"
      [] e = Critical -> "critical"

(* struct Task *)
Task(id, title, status, priority, tags, assignee, due) ==
    [id |-> id, title |-> title, description |-> "about " \o title,
     status |-> status, priority |-> priority,
     created_at |-> "2024-01-01T00:00:00Z", updated_at |-> "2024-01-02T00:00:00Z",
     tags |-> tags, assignee |-> assignee, due_date |-> due]

(* The tasks documents are built from: the tasks A, B, C of the scenario   *)
(* of section 8.  TaskC repeats the id of TaskA; TaskB has no assignee and *)
(* carries its tag x twice, after another tag.                             *)
TaskA == Task("t1", "A", Pending, High, <<"x">>, Some("alice"), None)
TaskB == Task("t2", "B", Completed, Low, <<"z", "x", "x">>, None, Some("2024-02-01"))
TaskC == Task("t1", "C", Pending, Medium, <<"y">>, Some("bob"), None)
TaskPool == {TaskA, TaskB, TaskC}

(* TaskCollection::new *)
NewTaskCollection == [tasks |-> <<>>, version |-> "1.0"]

----------------------------------------------------------------------------
(* storage.rs *)

IoCause == "Permission denied (os error 13)"
ParseCause == "expected value at line 1 column 1"

(* States of the file at file_path: absent, present but unreadable,        *)
(* present with content that is not a TaskCollection, present and valid.   *)
AbsentDoc == [state |-> "absent", tasks |-> <<>>, version |-> ""]
UnreadableDoc == [state |-> "unreadable", tasks |-> <<>>, version |-> ""]
MalformedDoc == [state |-> "malformed", tasks |-> <<>>, version |-> ""]
ValidDoc(ts, v) == [state |-> "valid", tasks |-> ts, version |-> v]

DocVersions == {"1.0", "2.0"}
TaskSeqs == UNION {[1..n -> TaskPool] : n \in 0..MaxTasks}
Docs == {AbsentDoc, UnreadableDoc, MalformedDoc}
            \cup {ValidDoc(ts, v) : ts \in TaskSeqs, v \in DocVersions}

(* TaskStorage::save_tasks: the document after the collection c is written *)
StorageSaveTasks(c) == ValidDoc(c.tasks, c.version)

(* anyhow::Result<TaskCollection> *)
Ok(c) == [ok |-> TRUE, tasks |-> c.tasks, version |-> c.version, cause |-> ""]
Err(cause) == [ok |-> FALSE, tasks |-> <<>>, version |-> "", cause |-> cause]

(* Mutant of StorageLoadTasks: a document that fails to parse is taken as *)
(* a new collection                                                       *)
StorageLoadTasksLenient(d) ==
    IF d.state = "absent" THEN Ok(NewTaskCollection)
    ELSE IF d.state = "unreadable" THEN Err(IoCause)
    ELSE IF d.state = "malformed" THEN Ok(NewTaskCollection)
    ELSE Ok([tasks |-> d.tasks, version |-> d.version])

(* Mutant of StorageLoadTasks: the file is read without the exists() test *)
StorageLoadTasksStrict(d) ==
    IF d.state = "absent" THEN Err("No such file or directory (os error 2)")
    ELSE IF d.state = "unreadable" THEN Err(IoCause)
    ELSE IF d.state = "malformed" THEN Err(ParseCause)
    ELSE Ok([tasks |-> d.tasks, version |-> d.version])

(* TaskStorage::load_tasks *)
StorageLoadTasks(d) ==
    IF d.state = "absent" THEN Ok(NewTaskCollection)
    ELSE IF d.state = "unreadable" THEN Err(IoCause)
    ELSE IF d.state = "malformed" THEN Err(ParseCause)
    ELSE Ok([tasks |-> d.tasks, version |-> d.version])

----------------------------------------------------------------------------
(* task_service.rs *)

(* Mutant of StatusMatch: the value is matched without regard to case *)
StatusMatchAnyCase(task, value) ==
    CASE value \in {"pending", "Pending"} -> task.status = Pending
      [] value \in {"in_progress", "In_Progress"} -> task.status = InProgress
      [] value \in {"completed", "Completed"} -> task.status = Completed
      [] value \in {"cancelled", "Cancelled"} -> task.status = Cancelled
      [] OTHER -> FALSE

(* match value.as_str() { "pending" => task.status == Pending, ... } *)
StatusMatch(task, value) ==
    CASE value = "pending" -> task.status = Pending
      [] value = "in_progress" -> task.status = InProgress
      [] value = "completed" -> task.status = Completed
      [] value = "cancelled" -> task.status = Cancelled
      [] OTHER -> FALSE

PriorityMatch(task, value) ==
    CASE value = "low" -> task.priority = Low
      [] value = "medium" -> task.priority = Medium
      [] value = "high" -> task.priority = High
      [] value = "critical" -> task.priority = Critical
      [] OTHER -> FALSE

(* task.assignee.as_ref() != Some(value) *)
AssigneeMatch(task, value) == task.assignee = Some(value)

(* task.tags.contains(value) *)
TagMatch(task, value) == \E i \in DOMAIN task.tags : task.tags[i] = value

(* Mutant of KeyPasses: an unknown key excludes the task *)
KeyPassesKnownOnly(task, key, value) ==
    CASE key = "status" -> StatusMatch(task, value)
      [] key = "priority" -> PriorityMatch(task, value)
      [] key = "assignee" -> AssigneeMatch(task, value)
      [] key = "tag" -> TagMatch(task, value)
      [] OTHER -> FALSE

(* One arm of the match on the key; FALSE is the closure's return false *)
KeyPasses(task, key, value) ==
    CASE key = "status" -> StatusMatch(task, value)
      [] key = "priority" -> PriorityMatch(task, value)
      [] key = "assignee" -> AssigneeMatch(task, value)
      [] key = "tag" -> TagMatch(task, value)
      [] OTHER -> TRUE

(* The closure passed to filter: the for loop over the map's entries,     *)
(* visited in the order `order`, returning false at the first failing key *)
(* (TaskPassesFirstKey is its mutant that returns after the first entry)  *)
TaskPassesFirstKey(task, fs, order, i) ==
    IF Len(order) = 0 THEN TRUE
    ELSE KeyPasses(task, order[1], fs[order[1]])

RECURSIVE TaskPasses(_, _, _, _)
TaskPasses(task, fs, order, i) ==
    IF i > Len(order) THEN TRUE
    ELSE IF ~KeyPasses(task, order[i], fs[order[i]]) THEN FALSE
    ELSE TaskPasses(task, fs, order, i + 1)

(* tasks.iter().filter(..).cloned().collect()                              *)
(* (CollectDedup is its mutant that drops a task equal to its predecessor) *)
RECURSIVE CollectDedup(_, _, _, _)
CollectDedup(tasks, fs, order, i) ==
    IF i > Len(tasks) THEN <<>>
    ELSE IF TaskPasses(tasks[i], fs, order, 1) /\ ~(i > 1 /\ tasks[i] = tasks[i - 1])
         THEN <<tasks[i]>> \o CollectDedup(tasks, fs, order, i + 1)
         ELSE CollectDedup(tasks, fs, order, i + 1)

RECURSIVE CollectFrom(_, _, _, _)
CollectFrom(tasks, fs, order, i) ==
    IF i > Len(tasks) THEN <<>>
    ELSE IF TaskPasses(tasks[i], fs, order, 1)
         THEN <<tasks[i]>> \o CollectFrom(tasks, fs, order, i + 1)
         ELSE CollectFrom(tasks, fs, order, i + 1)

(* Mutant of FilterTasks: the matches are collected newest first *)
FilterTasksNewestFirst(tasks, fs, order) ==
    LET r == CollectFrom(tasks, fs, order, 1)
    IN [i \in 1..Len(r) |-> r[Len(r) + 1 - i]]

(* TaskService::filter_tasks, the map being iterated in the order `order` *)
FilterTasks(tasks, fs, order) == CollectFrom(tasks, fs, order, 1)

(* Mutant of FindTask: the last task with the id (rfind) *)
FindTaskLast(tasks, id) ==
    IF \E i \in DOMAIN tasks : tasks[i].id = id
    THEN Some(tasks[CHOOSE i \in DOMAIN tasks :
                        /\ tasks[i].id = id
                        /\ \A j \in (i + 1)..Len(tasks) : tasks[j].id # id])
    ELSE None

(* tasks.iter().find(|t| t.id == task_id).cloned() *)
FindTask(tasks, id) ==
    IF \E i \in DOMAIN tasks : tasks[i].id = id
    THEN Some(tasks[CHOOSE i \in DOMAIN tasks :
                        /\ tasks[i].id = id
                        /\ \A j \in 1..(i - 1) : tasks[j].id # id])
    ELSE None

(* Mutant of Bump: map.insert(key, 1) *)
BumpInsert(m, key) ==
    [k \in DOMAIN m \cup {key} |-> IF k = key THEN 1 ELSE m[k]]

(* *map.entry(key).or_insert(0) += 1 *)
Bump(m, key) ==
    [k \in DOMAIN m \cup {key} |->
        IF k = key THEN (IF key \in DOMAIN m THEN m[key] + 1 ELSE 1) ELSE m[k]]

(* Mutant of CountStatus: the map starts with a zero for every status *)
RECURSIVE CountStatusZeroFilled(_, _)
CountStatusZeroFilled(tasks, n) ==
    IF n = 0 THEN [k \in {DebugFmt(e) : e \in TaskStatus} |-> 0]
    ELSE Bump(CountStatusZeroFilled(tasks, n - 1), DebugFmt(tasks[n].status))

(* The loop of from_tasks over tasks[1..n], keyed by the Debug formatting *)
RECURSIVE CountStatus(_, _)
CountStatus(tasks, n) ==
    IF n = 0 THEN EmptyMap
    ELSE Bump(CountStatus(tasks, n - 1), DebugFmt(tasks[n].status))

RECURSIVE CountPriority(_, _)
CountPriority(tasks, n) ==
    IF n = 0 THEN EmptyMap
    ELSE Bump(CountPriority(tasks, n - 1), DebugFmt(tasks[n].priority))

(* TaskStatistics::from_tasks *)
FromTasks(tasks) ==
    [total_tasks |-> Len(tasks),
     status_counts |-> CountStatus(tasks, Len(tasks)),
     priority_counts |-> CountPriority(tasks, Len(tasks))]

EmptyStats == [total_tasks |-> 0, status_counts |-> EmptyMap, priority_counts |-> EmptyMap]

(* Mutant of CountLines: the lines are numbered in iteration order *)
CountLinesNumbered(m, o) ==
    [i \in DOMAIN o |-> <<"-", o[i], ToString(m[o[i]]), ToString(i)>>]

(* The "- {}: {}" lines of one breakdown, the map iterated in order o *)
CountLines(m, o) == [i \in DOMAIN o |-> <<"-", o[i], ToString(m[o[i]])>>]

(* TaskStatistics::format_stats, the two maps iterated in orders so, po *)
FormatStats(st, so, po) ==
    <<  <<"## Task Statistics">>,
        <<"**Total Tasks:**", ToString(st.total_tasks)>>,
        <<"### By Status:">> >>
    \o CountLines(st.status_counts, so)
    \o << <<"### By Priority:">> >>
    \o CountLines(st.priority_counts, po)

----------------------------------------------------------------------------
(* mcp_handler.rs: values *)

(* serde_json::Value, by its type and its text *)
Str(s) == [type |-> "string", v |-> s]
Num(n) == [type |-> "number", v |-> n]
Null == [type |-> "null", v |-> "null"]

(* Mutant of AsStr: a value that is not a string is taken by its text *)
AsStrCoerce(j) == Some(j.v)

(* Value::as_str *)
AsStr(j) == IF j.type = "string" THEN Some(j.v) ELSE None

(* The argument keys and, per key, the values requests are drawn from:     *)
(* recognized and unrecognized strings, and values that are not strings.   *)
ArgKeys == {"status", "priority", "assignee", "tag", "id", "sort"}
ArgValues(k) ==
    CASE k = "status" -> {Str("pending"), Str("completed"), Str("Pending"), Num("7")}
      [] k = "priority" -> {Str("high"), Str("urgent")}
      [] k = "assignee" -> {Str("alice")}
      [] k = "tag" -> {Str("x"), Null}
      [] k = "id" -> {Str("t1"), Str("t9"), Num("1")}
      [] k = "sort" -> {Str("title")}

ArgMaps ==
    UNION {{m \in [K -> UNION {ArgValues(k) : k \in K}] :
                \A k \in K : m[k] \in ArgValues(k)} :
           K \in {K \in SUBSET ArgKeys : Cardinality(K) <= MaxArgs}}

(* request.arguments: Option<serde_json::Map<String, Value>> *)
ArgBags == {None} \cup {Some(m) : m \in ArgMaps}

ToolNames == {"list_tasks", "get_task", "task_stats"}
UnknownNames == {"create_task"}

(* Option::unwrap_or_default on the argument bag *)
UnwrapOrDefault(bag) == IF IsSome(bag) THEN Unwrap(bag) ELSE EmptyMap

(* Result<CallToolResult, McpError> *)
Success(lines) == [ok |-> TRUE, code |-> "", message |-> <<>>, content |-> lines]
InvalidParams(msg) == [ok |-> FALSE, code |-> "invalid_params", message |-> msg, content |-> <<>>]
InternalError(msg) == [ok |-> FALSE, code |-> "internal_error", message |-> msg, content |-> <<>>]
MethodNotFound == [ok |-> FALSE, code |-> "method_not_found", message |-> <<"tools/call">>, content |-> <<>>]

(* The closure of format_task_list: the lines of one task *)
FormatTask(task) ==
    <<  <<"-", task.title, "ID:", task.id,
          "Status:", DebugFmt(task.status), "Priority:", DebugFmt(task.priority)>>,
        <<"Description:", task.description>>,
        <<"Tags:">> \o task.tags >>
    \o (IF IsSome(task.assignee) THEN << <<"Assignee:", Unwrap(task.assignee)>> >> ELSE <<>>)
    \o (IF IsSome(task.due_date) THEN << <<"Due:", Unwrap(task.due_date)>> >> ELSE <<>>)

(* TaskMcpHandler::format_task_list: the entries joined by a blank line *)
RECURSIVE FormatTaskList(_)
FormatTaskList(tasks) ==
    IF Len(tasks) = 0 THEN <<>>
    ELSE IF Len(tasks) = 1 THEN FormatTask(tasks[1])
    ELSE FormatTask(tasks[1]) \o << <<>> >> \o FormatTaskList(Tail(tasks))

(* The summary of handle_list_tasks *)
ListSummary(tasks) ==
    IF Len(tasks) = 0
    THEN << <<"No tasks found with the specified filters.">> >>
    ELSE << <<"Found", ToString(Len(tasks)), "task(s):">>, <<>> >> \o FormatTaskList(tasks)

(* serde_json::to_string_pretty(&task): one line per field, enums by their *)
(* serde names, an absent option as null                                   *)
TaskJson(task) ==
    <<  <<"id", task.id>>,
        <<"title", task.title>>,
        <<"description", task.description>>,
        <<"status", SerdeFmt(task.status)>>,
        <<"priority", SerdeFmt(task.priority)>>,
        <<"created_at", task.created_at>>,
        <<"updated_at", task.updated_at>>,
        <<"tags">> \o task.tags,
        <<"assignee">> \o (IF IsSome(task.assignee) THEN task.assignee ELSE <<"null">>),
        <<"due_date">> \o (IF IsSome(task.due_date) THEN task.due_date ELSE <<"null">>) >>

(* The filters of handle_list_tasks: the string-valued arguments *)
ExtractFilters(bag) ==
    LET m == UnwrapOrDefault(bag)
    IN [k \in {k \in DOMAIN m : IsSome(AsStr(m[k]))} |-> Unwrap(AsStr(m[k]))]

(* Mutant of ExtractId: an id that is not a string is taken by its text *)
ExtractIdCoerce(m) == IF "id" \in DOMAIN m THEN Some(m["id"].v) ELSE None

(* arguments.get("id").and_then(|v| v.as_str()) *)
ExtractId(m) == IF "id" \in DOMAIN m THEN AsStr(m["id"]) ELSE None

----------------------------------------------------------------------------
(* The server *)

NoRequest == [name |-> "", arguments |-> None]

(* The frame of a request: everything call_tool and its handlers hold in  *)
(* arguments and locals.  TaskMcpHandler itself holds the TaskService    *)
(* (the storage path) and nothing else.                                   *)
Frame ==
    [pc |-> pc, request |-> request, loads |-> loads, loaded |-> loaded,
     task_id |-> task_id, filters |-> filters, filtered_tasks |-> filtered_tasks,
     stats |-> stats, response |-> response, method |-> method, saw |-> saw]

(* The frame of no request *)
IdleFrame ==
    [pc |-> "idle", request |-> NoRequest, loads |-> 0, loaded |-> None,
     task_id |-> None, filters |-> EmptyMap, filtered_tasks |-> <<>>,
     stats |-> EmptyStats, response |-> None, method |-> "", saw |-> None]

Init ==
    /\ doc \in Docs
    /\ pc = "idle"
    /\ request = NoRequest
    /\ loads = 0
    /\ loaded = None
    /\ task_id = None
    /\ filters = EmptyMap
    /\ filtered_tasks = <<>>
    /\ stats = EmptyStats
    /\ response = None
    /\ method = ""
    /\ saw = None
    /\ parked = IdleFrame
    /\ first = None

(* list_tools: the static catalog, one line per tool with its properties *)
ToolCatalog ==
    <<  <<"list_tasks", "status", "priority", "assignee", "tag">>,
        <<"get_task", "id">>,
        <<"task_stats">> >>

ListTools ==
    /\ pc = "idle"
    /\ method' = "list_tools"
    /\ response' = Some(Success(ToolCatalog))
    /\ pc' = "done"
    /\ UNCHANGED <<parked, first, doc, request, loads, loaded, task_id, filters,
                   filtered_tasks, stats, saw>>

(* call_tool, arm "list_tasks": handle_list_tasks up to the load *)
CallListTasks(args) ==
    /\ pc = "idle"
    /\ method' = "call_tool"
    /\ UNCHANGED saw
    /\ request' = [name |-> "list_tasks", arguments |-> args]
    /\ pc' = "loading"
    /\ UNCHANGED <<parked, first, doc, loads, loaded, task_id, filters, filtered_tasks, stats, response>>

(* call_tool, arm "get_task": handle_get_task up to the load *)
CallGetTask(args) ==
    /\ pc = "idle"
    /\ method' = "call_tool"
    /\ UNCHANGED saw
    /\ request' = [name |-> "get_task", arguments |-> args]
    /\ LET id == ExtractId(UnwrapOrDefault(args))
       IN IF IsSome(id)
          THEN /\ task_id' = id
               /\ pc' = "loading"
               /\ UNCHANGED response
          ELSE /\ response' = Some(InvalidParams(<<"Missing", "required", "parameter:", "id">>))
               /\ pc' = "done"
               /\ UNCHANGED task_id
    /\ UNCHANGED <<parked, first, doc, loads, loaded, filters, filtered_tasks, stats>>

(* call_tool, arm "task_stats": handle_task_stats up to the load *)
CallTaskStats(args) ==
    /\ pc = "idle"
    /\ method' = "call_tool"
    /\ UNCHANGED saw
    /\ request' = [name |-> "task_stats", arguments |-> args]
    /\ pc' = "loading"
    /\ UNCHANGED <<parked, first, doc, loads, loaded, task_id, filters, filtered_tasks, stats, response>>

(* Mutant of CallUnknown: the default arm serves the request from storage *)
CallUnknownLoads(name, args) ==
    /\ pc = "idle"
    /\ method' = "call_tool"
    /\ request' = [name |-> name, arguments |-> args]
    /\ pc' = "loading"
    /\ UNCHANGED <<parked, first, doc, loads, loaded, task_id, filters, filtered_tasks,
                   stats, response, saw>>

(* call_tool, arm _ *)
CallUnknown(name, args) ==
    /\ pc = "idle"
    /\ method' = "call_tool"
    /\ UNCHANGED saw
    /\ request' = [name |-> name, arguments |-> args]
    /\ response' = Some(MethodNotFound)
    /\ pc' = "done"
    /\ UNCHANGED <<parked, first, doc, loads, loaded, task_id, filters, filtered_tasks, stats>>

(* Mutant of LoadTasks: a collection created for an absent document is     *)
(* saved at once                                                           *)
LoadTasksCreating ==
    /\ pc = "loading"
    /\ saw' = Some(doc)
    /\ loaded' = Some(StorageLoadTasks(doc))
    /\ doc' = IF doc.state = "absent" THEN StorageSaveTasks(NewTaskCollection) ELSE doc
    /\ loads' = loads + 1
    /\ pc' = "loaded"
    /\ UNCHANGED <<parked, first, method, request, task_id, filters, filtered_tasks,
                   stats, response>>

(* TaskService::load_tasks: the storage read the handler awaits *)
LoadTasks ==
    /\ pc = "loading"
    /\ saw' = Some(doc)
    /\ UNCHANGED method
    /\ loaded' = Some(StorageLoadTasks(doc))
    /\ loads' = loads + 1
    /\ pc' = "loaded"
    /\ UNCHANGED <<parked, first, doc, request, task_id, filters, filtered_tasks, stats, response>>

(* handle_list_tasks after the load *)
FinishListTasks ==
    /\ pc = "loaded"
    /\ UNCHANGED <<method, saw>>
    /\ request.name = "list_tasks"
    /\ LET res == Unwrap(loaded)
       IN IF ~res.ok
          THEN /\ response' = Some(InternalError(<<"Failed", "to", "load", "tasks:", res.cause>>))
               /\ UNCHANGED <<filters, filtered_tasks>>
          ELSE /\ filters' = ExtractFilters(request.arguments)
               /\ \E order \in Orders(DOMAIN filters') :
                    filtered_tasks' = FilterTasks(res.tasks, filters', order)
               /\ response' = Some(Success(ListSummary(filtered_tasks')))
    /\ pc' = "done"
    /\ UNCHANGED <<parked, first, doc, request, loads, loaded, task_id, stats>>

(* handle_get_task after the load of find_task_by_id *)
FinishGetTask ==
    /\ pc = "loaded"
    /\ UNCHANGED <<method, saw>>
    /\ request.name = "get_task"
    /\ LET res == Unwrap(loaded)
           id == Unwrap(task_id)
       IN IF ~res.ok
          THEN response' = Some(InternalError(<<"Failed", "to", "load", "tasks:", res.cause>>))
          ELSE LET task == FindTask(res.tasks, id)
               IN IF IsSome(task)
                  THEN response' = Some(Success(<< <<"Task Details:">> >> \o TaskJson(Unwrap(task))))
                  ELSE response' = Some(InvalidParams(<<"Task", "not", "found:", id>>))
    /\ pc' = "done"
    /\ UNCHANGED <<parked, first, doc, request, loads, loaded, task_id, filters, filtered_tasks, stats>>

(* handle_task_stats after the load of get_task_statistics *)
FinishTaskStats ==
    /\ pc = "loaded"
    /\ UNCHANGED <<method, saw>>
    /\ request.name = "task_stats"
    /\ LET res == Unwrap(loaded)
       IN IF ~res.ok
          THEN /\ response' = Some(InternalError(<<"Failed", "to", "get", "task", "statistics:", res.cause>>))
               /\ UNCHANGED stats
          ELSE /\ stats' = FromTasks(res.tasks)
               /\ \E so \in Orders(DOMAIN stats'.status_counts),
                     po \in Orders(DOMAIN stats'.priority_counts) :
                    response' = Some(Success(FormatStats(stats', so, po)))
    /\ pc' = "done"
    /\ UNCHANGED <<parked, first, doc, request, loads, loaded, task_id, filters, filtered_tasks>>

(* The response is returned; the request's objects are dropped *)
Complete ==
    /\ pc = "done"
    /\ pc' = "idle"
    /\ request' = NoRequest
    /\ loads' = 0
    /\ loaded' = None
    /\ task_id' = None
    /\ filters' = EmptyMap
    /\ filtered_tasks' = <<>>
    /\ stats' = EmptyStats
    /\ response' = None
    /\ method' = ""
    /\ saw' = None
    /\ UNCHANGED <<parked, first, doc>>

Next ==
    \/ ListTools
    \/ \E args \in ArgBags : CallListTasks(args)
    \/ \E args \in ArgBags : CallGetTask(args)
    \/ \E args \in ArgBags : CallTaskStats(args)
    \/ \E name \in UnknownNames, args \in ArgBags : CallUnknown(name, args)
    \/ LoadTasks
    \/ FinishListTasks
    \/ FinishGetTask
    \/ FinishTaskStats
    \/ Complete

Spec == Init /\ [][Next]_vars

----------------------------------------------------------------------------
(* Two requests in flight.  The transport serves each request as a future  *)
(* of its own on a clone of the handler; the futures interleave at their   *)
(* await points.  The variables above are the frame of the request that    *)
(* takes the next step, `parked` is the frame of the other one.            *)

(* The documents and argument bags of the concurrent specifications *)
ConcDocs ==
    {AbsentDoc, MalformedDoc,
     ValidDoc(<<TaskA, TaskB>>, "1.0"), ValidDoc(<<TaskC>>, "2.0")}
ConcBags == {None, Some(("status" :> Str("pending")) @@ ("id" :> Str("t1")))}

(* Mutant of Switch: the loaded collection is kept in the handler and not  *)
(* in the request                                                          *)
SwitchSharedSnapshot ==
    /\ parked' = Frame
    /\ pc' = parked.pc
    /\ request' = parked.request
    /\ loads' = parked.loads
    /\ task_id' = parked.task_id
    /\ filters' = parked.filters
    /\ filtered_tasks' = parked.filtered_tasks
    /\ stats' = parked.stats
    /\ response' = parked.response
    /\ method' = parked.method
    /\ saw' = parked.saw
    /\ UNCHANGED <<doc, first, loaded>>

(* The other request takes the next step *)
Switch ==
    /\ parked' = Frame
    /\ pc' = parked.pc
    /\ request' = parked.request
    /\ loads' = parked.loads
    /\ loaded' = parked.loaded
    /\ task_id' = parked.task_id
    /\ filters' = parked.filters
    /\ filtered_tasks' = parked.filtered_tasks
    /\ stats' = parked.stats
    /\ response' = parked.response
    /\ method' = parked.method
    /\ saw' = parked.saw
    /\ UNCHANGED <<doc, first>>

(* The client keeps the outcome of a request *)
Remember ==
    /\ pc = "done"
    /\ first = None
    /\ first' = Some([method |-> method, request |-> request, response |-> Unwrap(response)])
    /\ UNCHANGED <<doc, pc, request, loads, loaded, task_id, filters, filtered_tasks,
                   stats, response, method, saw, parked>>

(* Another process replaces the document *)
ExternalWrite(d) ==
    /\ d # doc
    /\ doc' = d
    /\ UNCHANGED <<pc, request, loads, loaded, task_id, filters, filtered_tasks,
                   stats, response, method, saw, parked, first>>

InitConc ==
    /\ doc \in ConcDocs
    /\ pc = "idle"
    /\ request = NoRequest
    /\ loads = 0
    /\ loaded = None
    /\ task_id = None
    /\ filters = EmptyMap
    /\ filtered_tasks = <<>>
    /\ stats = EmptyStats
    /\ response = None
    /\ method = ""
    /\ saw = None
    /\ parked = IdleFrame
    /\ first = None

Serve ==
    \/ ListTools
    \/ \E args \in ConcBags : CallListTasks(args)
    \/ \E args \in ConcBags : CallGetTask(args)
    \/ \E args \in ConcBags : CallTaskStats(args)
    \/ \E name \in UnknownNames, args \in ConcBags : CallUnknown(name, args)
    \/ LoadTasks
    \/ FinishListTasks
    \/ FinishGetTask
    \/ FinishTaskStats
    \/ Complete
    \/ Switch

NextConc == Serve \/ Remember

(* Two requests in flight against a document nobody else writes *)
SpecConc == InitConc /\ [][NextConc]_vars

NextEnv == Serve \/ \E d \in ConcDocs : ExternalWrite(d)

(* Two requests in flight against a document another process replaces *)
SpecEnv == InitConc /\ [][NextEnv]_vars

----------------------------------------------------------------------------
(* Properties of the query engine, read off the handlers' locals *)

(* The snapshot the request loaded *)
Snapshot == Unwrap(loaded).tasks

(* handle_list_tasks has run filter_tasks on a loaded snapshot *)
ListDone == pc = "done" /\ request.name = "list_tasks" /\ Unwrap(loaded).ok

(* handle_task_stats has run from_tasks on a loaded snapshot *)
StatsDone == pc = "done" /\ request.name = "task_stats" /\ Unwrap(loaded).ok

(* s is a subsequence of t: s is t[f[1]], t[f[2]], ... for increasing f *)
IsSubsequence(s, t) ==
    \E f \in [1..Len(s) -> 1..Len(t)] :
        /\ \A i, j \in 1..Len(s) : i < j => f[i] < f[j]
        /\ \A i \in 1..Len(s) : s[i] = t[f[i]]

RecognizedKeys == {"status", "priority", "assignee", "tag"}
StatusLabels == {"pending", "in_progress", "completed", "cancelled"}
PriorityLabels == {"low", "medium", "high", "critical"}

(* t satisfies the predicate of every recognized key present in F *)
Satisfies(t, F) ==
    /\ "status" \in DOMAIN F =>
            \E st \in TaskStatus : SerdeFmt(st) = F["status"] /\ t.status = st
    /\ "priority" \in DOMAIN F =>
            \E pr \in Priority : SerdeFmt(pr) = F["priority"] /\ t.priority = pr
    /\ "assignee" \in DOMAIN F =>
            IsSome(t.assignee) /\ Unwrap(t.assignee) = F["assignee"]
    /\ "tag" \in DOMAIN F => F["tag"] \in {t.tags[i] : i \in DOMAIN t.tags}

(* The tasks of T satisfying F, in the order of T *)
Conjunctive(T, F) == LET Keep(t) == Satisfies(t, F) IN SelectSeq(T, Keep)

(* The map F without the keys in K *)
Without(F, K) == [k \in DOMAIN F \ K |-> F[k]]

(* C1: the result of filter_tasks is a subsequence of the task sequence it *)
(* was given: every returned task comes from it, none more often than it   *)
(* occurs there, in the same relative order.                               *)
Thm_C1 == ListDone => IsSubsequence(filtered_tasks, Snapshot)

Wit_C1 ==
    /\ ListDone
    /\ Len(Snapshot) = 3
    /\ Len(filtered_tasks) = 2
    /\ filtered_tasks[1] # filtered_tasks[2]
    /\ DOMAIN filters # {}

(* C2: filter_tasks keeps exactly the tasks that satisfy the predicate of  *)
(* every recognized key present in the filter map, and the result is the   *)
(* same for every order in which the map's keys are visited.               *)
Thm_C2 ==
    ListDone =>
        /\ filtered_tasks = Conjunctive(Snapshot, filters)
        /\ \A order \in Orders(DOMAIN filters) :
                FilterTasks(Snapshot, filters, order) = filtered_tasks

Wit_C2 ==
    /\ ListDone
    /\ Cardinality(DOMAIN filters \cap RecognizedKeys) = 2
    /\ "assignee" \in DOMAIN filters
    /\ Len(filtered_tasks) > 0
    /\ Len(filtered_tasks) < Len(Snapshot)
    /\ \E i \in DOMAIN Snapshot : Snapshot[i].assignee = None

(* C3: with an empty filter map filter_tasks returns its input: the same   *)
(* tasks, the same length, the same order.                                 *)
Thm_C3 == (ListDone /\ DOMAIN filters = {}) => filtered_tasks = Snapshot

Wit_C3 ==
    /\ ListDone
    /\ DOMAIN filters = {}
    /\ Len(filtered_tasks) >= 2
    /\ filtered_tasks[1] # filtered_tasks[2]

(* The request carries a string status outside the four status labels or  *)
(* a string priority outside the four priority labels                      *)
UnrecognizedValue ==
    LET m == UnwrapOrDefault(request.arguments)
    IN \/ /\ "status" \in DOMAIN m
          /\ m["status"].type = "string"
          /\ m["status"].v \notin StatusLabels
       \/ /\ "priority" \in DOMAIN m
          /\ m["priority"].type = "string"
          /\ m["priority"].v \notin PriorityLabels

NoMatches == Success(<< <<"No tasks found with the specified filters.">> >>)

(* C4: a list_tasks call with an unrecognized status or priority value     *)
(* against a readable document filters every task out and returns the      *)
(* success result with the no-matches indication, never an error.          *)
Thm_C4 ==
    (ListDone /\ UnrecognizedValue) =>
        /\ filtered_tasks = <<>>
        /\ response = Some(NoMatches)

Wit_C4 ==
    /\ ListDone
    /\ "status" \in DOMAIN filters
    /\ filters["status"] = "Pending"
    /\ DOMAIN filters = {"status"}
    /\ \E i \in DOMAIN Snapshot : Snapshot[i].status = Pending
    /\ response = Some(NoMatches)

(* C5: keys other than status, priority, assignee and tag do not affect    *)
(* the result of filter_tasks: it equals the result for the map without    *)
(* them, and the call succeeds.                                            *)
Thm_C5 ==
    ListDone =>
        LET F == Without(filters, DOMAIN filters \ RecognizedKeys)
        IN /\ \A order \in Orders(DOMAIN F) :
                    filtered_tasks = FilterTasks(Snapshot, F, order)
           /\ Unwrap(response).ok

Wit_C5 ==
    /\ ListDone
    /\ DOMAIN filters \ RecognizedKeys # {}
    /\ DOMAIN filters \cap RecognizedKeys # {}
    /\ Len(filtered_tasks) > 0
    /\ Len(filtered_tasks) < Len(Snapshot)

(* The map m restricted to its string values *)
StringsOnly(m) == [k \in {k \in DOMAIN m : m[k].type = "string"} |-> m[k]]

(* The response of list_tasks to the argument bag `bag` on the load result *)
(* res, the filter map being visited in the order `order`                  *)
ListTasksResponse(res, bag, order) ==
    IF ~res.ok
    THEN InternalError(<<"Failed", "to", "load", "tasks:", res.cause>>)
    ELSE Success(ListSummary(FilterTasks(res.tasks, ExtractFilters(bag), order)))

(* C6: list_tasks drops the arguments that are not strings: its response   *)
(* is the response to the same call without them (an absent bag counting   *)
(* as an empty one), and a call with no string argument returns every task *)
(* of the snapshot.                                                        *)
Thm_C6 ==
    (pc = "done" /\ request.name = "list_tasks") =>
        LET m == UnwrapOrDefault(request.arguments)
            stripped == Some(StringsOnly(m))
        IN /\ \A order \in Orders(DOMAIN StringsOnly(m)) :
                    response = Some(ListTasksResponse(Unwrap(loaded), stripped, order))
           /\ (Unwrap(loaded).ok /\ DOMAIN StringsOnly(m) = {}) =>
                    /\ filtered_tasks = Snapshot
                    /\ response = Some(Success(ListSummary(Snapshot)))

Wit_C6 ==
    /\ ListDone
    /\ IsSome(request.arguments)
    /\ DOMAIN Unwrap(request.arguments) = {"status"}
    /\ Unwrap(request.arguments)["status"].type = "number"
    /\ Len(Snapshot) >= 2
    /\ Len(filtered_tasks) = Len(Snapshot)

(* C7: from_tasks reports the length of the task sequence as total_tasks,  *)
(* and the status counts and the priority counts each sum to that length.  *)
Thm_C7 ==
    StatsDone =>
        /\ stats.total_tasks = Len(Snapshot)
        /\ SumValues(stats.status_counts) = Len(Snapshot)
        /\ SumValues(stats.priority_counts) = Len(Snapshot)

Wit_C7 ==
    /\ StatsDone
    /\ Len(Snapshot) = 3
    /\ Cardinality(DOMAIN stats.status_counts) = 2
    /\ Cardinality(DOMAIN stats.priority_counts) = 2

(* The labels of the breakdown lines of a task_stats payload *)
PayloadLabels(lines) ==
    {lines[i][2] : i \in {i \in DOMAIN lines : Len(lines[i]) = 3 /\ lines[i][1] = "-"}}

(* C8: the keys of status_counts and priority_counts, and the labels of    *)
(* the task_stats payload, are the canonical lowercase identifiers.        *)
Cex_C8 ==
    StatsDone =>
        /\ DOMAIN stats.status_counts \subseteq StatusLabels
        /\ DOMAIN stats.priority_counts \subseteq PriorityLabels
        /\ PayloadLabels(Unwrap(response).content) \subseteq StatusLabels \cup PriorityLabels

(* The number of tasks of T whose field f is e *)
Occurrences(T, f, e) == Cardinality({i \in DOMAIN T : T[i][f] = e})

(* The key k names the enum value e, in either spelling *)
Names(k, e) == k = DebugFmt(e) \/ k = SerdeFmt(e)

(* The map m holds, for the values of field f of the tasks of T, one entry *)
(* per value that occurs, with the number of its occurrences               *)
CountsPresent(m, T, f, Variants) ==
    /\ \A e \in Variants :
            LET n == Occurrences(T, f, e)
                ks == {k \in DOMAIN m : Names(k, e)}
            IN IF n = 0 THEN ks = {}
               ELSE Cardinality(ks) = 1 /\ \A k \in ks : m[k] = n
    /\ \A k \in DOMAIN m : m[k] > 0 /\ \E e \in Variants : Names(k, e)

(* C9: status_counts (priority_counts) has an entry for a status           *)
(* (priority) exactly when some task has it, the entry's value is the      *)
(* number of such tasks, no entry is 0, and both maps are empty for an     *)
(* empty task sequence.                                                    *)
Thm_C9 ==
    StatsDone =>
        /\ CountsPresent(stats.status_counts, Snapshot, "status", TaskStatus)
        /\ CountsPresent(stats.priority_counts, Snapshot, "priority", Priority)
        /\ Len(Snapshot) = 0 =>
                DOMAIN stats.status_counts = {} /\ DOMAIN stats.priority_counts = {}

Wit_C9 ==
    /\ StatsDone
    /\ Len(Snapshot) = 3
    /\ \E k \in DOMAIN stats.status_counts : stats.status_counts[k] = 2
    /\ \E e \in TaskStatus : Occurrences(Snapshot, "status", e) = 0
    /\ \E k \in DOMAIN stats.priority_counts : stats.priority_counts[k] = 1

(* The request carries no argument bag, no id, or an id that is no string *)
IdMissing ==
    \/ request.arguments = None
    \/ "id" \notin DOMAIN Unwrap(request.arguments)
    \/ Unwrap(request.arguments)["id"].type # "string"

(* C10: a get_task call without a string id fails with an invalid-params   *)
(* error whose message names id, whatever the state of the storage, and    *)
(* performs no load.                                                       *)
Thm_C10 ==
    (request.name = "get_task" /\ IdMissing) =>
        /\ pc = "done"
        /\ loads = 0
        /\ loaded = None
        /\ ~Unwrap(response).ok
        /\ Unwrap(response).code = "invalid_params"
        /\ \E i \in DOMAIN Unwrap(response).message : Unwrap(response).message[i] = "id"

Wit_C10 ==
    /\ pc = "done"
    /\ request.name = "get_task"
    /\ IsSome(request.arguments)
    /\ "id" \in DOMAIN Unwrap(request.arguments)
    /\ Unwrap(request.arguments)["id"].type = "number"
    /\ doc.state = "malformed"
    /\ ~Unwrap(response).ok

----------------------------------------------------------------------------
(* Properties of the dispatcher *)

(* get_task was called with a string id and the load succeeded *)
GetDone(id) ==
    /\ pc = "done"
    /\ request.name = "get_task"
    /\ ~IdMissing
    /\ Unwrap(request.arguments)["id"].v = id
    /\ Unwrap(loaded).ok

RequestedIds == {j.v : j \in {j \in ArgValues("id") : j.type = "string"}}

(* The places of the tasks of T whose id is id *)
Places(T, id) == {i \in DOMAIN T : T[i].id = id}

(* C11: get_task with a string id that no task of the snapshot has fails   *)
(* with a not-found error, a kind of its own, distinct from the invalid    *)
(* arguments, unknown operation and internal error kinds, whose message    *)
(* contains the id.                                                        *)
Cex_C11 ==
    \A id \in RequestedIds :
        (GetDone(id) /\ Places(Snapshot, id) = {}) =>
            /\ ~Unwrap(response).ok
            /\ Unwrap(response).code \notin {"invalid_params", "method_not_found", "internal_error"}
            /\ \E i \in DOMAIN Unwrap(response).message : Unwrap(response).message[i] = id

(* C12: get_task with a string id that some task of the snapshot has       *)
(* succeeds with the full record of the first task of the snapshot that    *)
(* has that id.                                                            *)
Thm_C12 ==
    \A id \in RequestedIds :
        (GetDone(id) /\ Places(Snapshot, id) # {}) =>
            LET i == CHOOSE i \in Places(Snapshot, id) : \A j \in Places(Snapshot, id) : i <= j
                content == Unwrap(response).content
            IN /\ Unwrap(response).ok
               /\ content = << <<"Task Details:">> >> \o TaskJson(Snapshot[i])
               /\ content[2] = <<"id", id>>
               /\ content[3] = <<"title", Snapshot[i].title>>

Wit_C12 ==
    /\ GetDone("t1")
    /\ Len(Snapshot) = 3
    /\ Snapshot[1].id # "t1"
    /\ Snapshot[2] = TaskC
    /\ Snapshot[3] = TaskA
    /\ Unwrap(response).ok
    /\ Unwrap(response).content[3] = <<"title", "C">>

(* C13: a call_tool request whose name is none of the three tools fails    *)
(* with the unknown-operation error, for every argument bag and every      *)
(* state of the storage, and the storage is not read.                      *)
Thm_C13 ==
    (method = "call_tool" /\ request.name \notin {"list_tasks", "get_task", "task_stats"}) =>
        /\ pc = "done"
        /\ response = Some(MethodNotFound)
        /\ Unwrap(response).code = "method_not_found"
        /\ loads = 0
        /\ loaded = None
        /\ saw = None

Wit_C13 ==
    /\ method = "call_tool"
    /\ request.name = "create_task"
    /\ IsSome(request.arguments)
    /\ "id" \in DOMAIN Unwrap(request.arguments)
    /\ doc.state = "unreadable"
    /\ pc = "done"
    /\ ~Unwrap(response).ok

(* The cause of the failure to load the document d *)
FailureCause(d) == IF d.state = "unreadable" THEN IoCause ELSE ParseCause

(* C14: when the document is unreadable or malformed, list_tasks, get_task *)
(* with a string id and task_stats each end with an internal error whose   *)
(* message carries the cause, and no request performs more than one load.  *)
Thm_C14 ==
    /\ loads <= 1
    /\ ( /\ pc = "done"
         /\ doc.state \in {"unreadable", "malformed"}
         /\ request.name \in ToolNames
         /\ request.name = "get_task" => ~IdMissing ) =>
            /\ loads = 1
            /\ ~Unwrap(response).ok
            /\ Unwrap(response).code = "internal_error"
            /\ \E i \in DOMAIN Unwrap(response).message :
                    Unwrap(response).message[i] = FailureCause(doc)

Wit_C14 ==
    /\ pc = "done"
    /\ doc.state = "malformed"
    /\ request.name = "get_task"
    /\ ~IdMissing
    /\ Unwrap(response).code = "internal_error"

(* C15: an absent document is no error: load_tasks yields the empty        *)
(* collection of version "1.0", list_tasks with any filters succeeds with  *)
(* no matches, and task_stats succeeds with total 0 and empty breakdowns.  *)
Thm_C15 ==
    (doc.state = "absent" /\ IsSome(loaded)) =>
        /\ Unwrap(loaded).ok
        /\ Unwrap(loaded).tasks = <<>>
        /\ Unwrap(loaded).version = "1.0"
        /\ (pc = "done" /\ request.name = "list_tasks") =>
                /\ filtered_tasks = <<>>
                /\ response = Some(NoMatches)
        /\ (pc = "done" /\ request.name = "task_stats") =>
                /\ stats.total_tasks = 0
                /\ DOMAIN stats.status_counts = {}
                /\ DOMAIN stats.priority_counts = {}
                /\ Unwrap(response).ok
                /\ Unwrap(response).content[2] = <<"**Total Tasks:**", "0">>
                /\ PayloadLabels(Unwrap(response).content) = {}

Wit_C15 ==
    /\ doc.state = "absent"
    /\ pc = "done"
    /\ request.name = "task_stats"
    /\ Unwrap(response).ok
    /\ stats.total_tasks = 0

----------------------------------------------------------------------------
(* Properties of requests in flight together *)

(* The breakdown lines of a payload *)
IsEntry(line) == Len(line) = 3 /\ line[1] = "-"

(* An outcome with the breakdown entries of each section taken as a set *)
Unordered(resp) ==
    LET lines == resp.content
        Fixed(line) == ~IsEntry(line)
        Section(i) == Cardinality({j \in 1..i : lines[j] = <<"### By Priority:">>})
    IN [ok |-> resp.ok, code |-> resp.code, message |-> resp.message,
        fixed |-> SelectSeq(lines, Fixed),
        entries |-> {<<Section(i), lines[i]>> : i \in {i \in DOMAIN lines : IsEntry(lines[i])}}]

(* C16: a request identical to an earlier one, served against the same     *)
(* document, has the same outcome (the same error, or the same payload up  *)
(* to the order of the breakdown entries), whatever was served in between. *)
Thm_C16 ==
    ( /\ IsSome(first)
      /\ pc = "done"
      /\ method = Unwrap(first).method
      /\ request = Unwrap(first).request ) =>
        Unordered(Unwrap(response)) = Unordered(Unwrap(first).response)

Wit_C16 ==
    /\ IsSome(first)
    /\ pc = "done"
    /\ method = "call_tool"
    /\ request = Unwrap(first).request
    /\ request.name = "task_stats"
    /\ Unwrap(response) # Unwrap(first).response
    /\ parked.pc = "loaded"

(* The response of get_task to the bag on the load result res *)
GetTaskResponse(res, bag) ==
    LET m == UnwrapOrDefault(bag)
    IN IF ~("id" \in DOMAIN m /\ m["id"].type = "string")
       THEN InvalidParams(<<"Missing", "required", "parameter:", "id">>)
       ELSE IF ~res.ok
       THEN InternalError(<<"Failed", "to", "load", "tasks:", res.cause>>)
       ELSE IF Places(res.tasks, m["id"].v) = {}
       THEN InvalidParams(<<"Task", "not", "found:", m["id"].v>>)
       ELSE Success(<< <<"Task Details:">> >> \o TaskJson(Unwrap(FindTask(res.tasks, m["id"].v))))

(* The responses of task_stats on the load result res, one per iteration  *)
(* order of the two maps                                                   *)
TaskStatsResponses(res) ==
    IF ~res.ok
    THEN {InternalError(<<"Failed", "to", "get", "task", "statistics:", res.cause>>)}
    ELSE LET st == FromTasks(res.tasks)
         IN {Success(FormatStats(st, so, po)) :
                so \in Orders(DOMAIN st.status_counts),
                po \in Orders(DOMAIN st.priority_counts)}

(* The responses a request gives when it is served alone against the      *)
(* document content d (None: the request reads no document)               *)
AloneResponses(m, req, d) ==
    LET res == IF IsSome(d) THEN StorageLoadTasks(Unwrap(d)) ELSE Err("")
    IN CASE m = "list_tools" -> {Success(ToolCatalog)}
         [] m = "call_tool" /\ req.name = "list_tasks" ->
                {ListTasksResponse(res, req.arguments, order) :
                    order \in Orders(DOMAIN ExtractFilters(req.arguments))}
         [] m = "call_tool" /\ req.name = "get_task" ->
                {GetTaskResponse(res, req.arguments)}
         [] m = "call_tool" /\ req.name = "task_stats" -> TaskStatsResponses(res)
         [] OTHER -> {MethodNotFound}

(* The request of frame f works on a snapshot of its own and answers as   *)
(* it would alone on the document content it loaded                       *)
Isolated(f) ==
    /\ f.loads <= 1
    /\ IsSome(f.loaded) =>
            /\ IsSome(f.saw)
            /\ f.loaded = Some(StorageLoadTasks(Unwrap(f.saw)))
    /\ f.pc = "done" =>
            /\ IsSome(f.response)
            /\ Unwrap(f.response) \in AloneResponses(f.method, f.request, f.saw)

(* C17: under every interleaving of two requests, with the document being *)
(* replaced in between, each request loads its own snapshot and responds  *)
(* as it does when served alone against the document content it loaded.   *)
Thm_C17 == Isolated(Frame) /\ Isolated(parked)

Wit_C17 ==
    /\ pc = "done"
    /\ parked.pc = "done"
    /\ method = "call_tool"
    /\ request = parked.request
    /\ request.name = "list_tasks"
    /\ IsSome(saw)
    /\ IsSome(parked.saw)
    /\ saw # parked.saw
    /\ doc # Unwrap(saw)
    /\ doc # Unwrap(parked.saw)
    /\ Unwrap(response).ok
    /\ Unwrap(parked.response).ok
    /\ response # parked.response

(* C18: no step of a list_tools or call_tool request, in any interleaving, *)
(* changes the storage document; an absent document stays absent.          *)
Thm_C18 == [][doc' = doc]_vars

Wit_C18 ==
    /\ doc.state = "absent"
    /\ pc = "done"
    /\ method = "call_tool"
    /\ request.name = "list_tasks"
    /\ IsSome(loaded)
    /\ parked.pc = "done"
    /\ parked.method = "call_tool"
    /\ parked.request.name = "task_stats"
    /\ IsSome(parked.loaded)

====
